---- MODULE Spec2Model ----
(***************************************************************************)
(* Model of the price service (src/price_api.py) and of the daily snapshot *)
(* job (src/daily_snapshot.py).                                            *)
(*                                                                         *)
(* Python strings are sequences of one-character strings, so that the      *)
(* regular expressions, the upper-casing, the int() parsing and the        *)
(* f-string formatting of the source are computed, not assumed.            *)
(* An Optional value is <<>> (None) or <<x>>.                              *)
(***************************************************************************)
EXTENDS Integers, Sequences, FiniteSets, TLC

\* ------------------------------------------------------------------------
\* Bounds of the model
\* ------------------------------------------------------------------------
MaxVersion == 1
MaxRows == 2
MaxClock == 3
MaxEntries == 2
MaxDay == 1

\* ------------------------------------------------------------------------
\* Characters and strings
\* ------------------------------------------------------------------------
\* a local name assigned once: F of the value of e
Bind(e, F(_)) == CHOOSE y \in {F(x) : x \in {e}} : TRUE

None == <<>>
Some(x) == <<x>>

Digits == <<"0", "1", "2", "3", "4", "5", "6", "7", "8", "9">>
LowerAZ == <<"a", "b", "c", "d", "e", "f", "g", "h", "i", "j", "k", "l", "m",
             "n", "o", "p", "q", "r", "s", "t", "u", "v", "w", "x", "y", "z">>
UpperAZ == <<"A", "B", "C", "D", "E", "F", "G", "H", "I", "J", "K", "L", "M",
             "N", "O", "P", "Q", "R", "S", "T", "U", "V", "W", "X", "Y", "Z">>

IsDigit(c) == \E i \in 1..10 : Digits[i] = c
DigitVal(c) == (CHOOSE i \in 1..10 : Digits[i] = c) - 1
IsUpper(c) == \E i \in 1..26 : UpperAZ[i] = c
IsSpace(c) == c \in {" ", "\t", "\n"}

\* str.upper(), character by character
UpperChar(c) ==
    IF \E i \in 1..26 : LowerAZ[i] = c
    THEN UpperAZ[CHOOSE i \in 1..26 : LowerAZ[i] = c]
    ELSE c
Upper(s) == [i \in 1..Len(s) |-> UpperChar(s[i])]

\* str.strip()
RECURSIVE LStrip(_)
LStrip(s) == IF s # <<>> /\ IsSpace(s[1]) THEN LStrip(Tail(s)) ELSE s
RECURSIVE RStrip(_)
RStrip(s) ==
    IF s # <<>> /\ IsSpace(s[Len(s)]) THEN RStrip(SubSeq(s, 1, Len(s) - 1)) ELSE s
Strip(s) == RStrip(LStrip(s))

\* str.replace(c, "") for a one-character c
RemoveChar(s, c) == SelectSeq(s, LAMBDA x : x # c)

\* int(digits)
RECURSIVE ParseInt(_)
ParseInt(ds) ==
    IF ds = <<>> THEN 0
    ELSE ParseInt(SubSeq(ds, 1, Len(ds) - 1)) * 10 + DigitVal(ds[Len(ds)])

\* f"{n}" for an integer n
RECURSIVE FormatNat(_)
FormatNat(n) ==
    IF n < 10 THEN <<Digits[n + 1]>>
    ELSE FormatNat(n \div 10) \o <<Digits[(n % 10) + 1]>>
FormatInt(n) == IF n < 0 THEN <<"-">> \o FormatNat(0 - n) ELSE FormatNat(n)

\* ------------------------------------------------------------------------
\* The regular expressions of the normalizers
\* ------------------------------------------------------------------------
\* last index of the run of digits that starts at j (j - 1 when s[j] is none)
RECURSIVE DigitRunEnd(_, _)
DigitRunEnd(s, j) ==
    IF j <= Len(s) /\ IsDigit(s[j]) THEN DigitRunEnd(s, j + 1) ELSE j - 1

\* V=\d+ (re.IGNORECASE) matches at index i
VMarkerAt(s, i) ==
    /\ i >= 1
    /\ i + 2 <= Len(s)
    /\ s[i] \in {"V", "v"}
    /\ s[i + 1] = "="
    /\ IsDigit(s[i + 2])

MinOf(S) == CHOOSE x \in S : \A y \in S : x <= y

\* EMBEDDED_V_PATH_RE.search(s): group(1) of the leftmost match, or None
EMBEDDED_V_PATH_RE(s) ==
    LET starts == {i \in 1..Len(s) : VMarkerAt(s, i)}
    IN  IF starts = {} THEN None
        ELSE LET i == MinOf(starts)
             IN  Some(SubSeq(s, i + 2, DigitRunEnd(s, i + 2)))

\* EMBEDDED_V_ANY_RE.search(s): the same with an optional leading ? or &
EMBEDDED_V_ANY_RE(s) ==
    LET starts == {i \in 1..Len(s) :
                      \/ s[i] \in {"?", "&"} /\ VMarkerAt(s, i + 1)
                      \/ VMarkerAt(s, i)}
    IN  IF starts = {} THEN None
        ELSE LET i == MinOf(starts)
                 v == IF s[i] \in {"?", "&"} THEN i + 1 ELSE i
             IN  Some(SubSeq(s, v + 2, DigitRunEnd(s, v + 2)))

\* re.split(r"[?&]", s, maxsplit=1)[0]
SplitQuery(s) ==
    LET cuts == {i \in 1..Len(s) : s[i] \in {"?", "&"}}
    IN  IF cuts = {} THEN s ELSE SubSeq(s, 1, MinOf(cuts) - 1)

\* re.sub(r"V=\d+", "", s, flags=re.IGNORECASE)
RECURSIVE SubVMarker(_)
SubVMarker(s) ==
    IF s = <<>> THEN <<>>
    ELSE IF VMarkerAt(s, 1)
         THEN SubVMarker(SubSeq(s, DigitRunEnd(s, 3) + 1, Len(s)))
         ELSE <<s[1]>> \o SubVMarker(Tail(s))

\* the standard grammar without its end anchor
NORMAL_ID_RE_NoAnchor(b) ==
    \E n \in 1..(Len(b) - 6) :
        /\ \A i \in 1..n : IsUpper(b[i])
        /\ IsDigit(b[n + 1]) /\ IsDigit(b[n + 2])
        /\ b[n + 3] = "-"
        /\ IsDigit(b[n + 4]) /\ IsDigit(b[n + 5]) /\ IsDigit(b[n + 6])

\* ^[A-Z]+[0-9]{2}-[0-9]{3}$
NORMAL_ID_RE(b) ==
    LET n == Len(b) - 6
    IN  /\ n >= 1
        /\ \A i \in 1..n : IsUpper(b[i])
        /\ IsDigit(b[n + 1]) /\ IsDigit(b[n + 2])
        /\ b[n + 3] = "-"
        /\ IsDigit(b[n + 4]) /\ IsDigit(b[n + 5]) /\ IsDigit(b[n + 6])

\* ^P-[0-9]{3}$
PROMO_ID_RE(b) ==
    /\ Len(b) = 5
    /\ b[1] = "P" /\ b[2] = "-"
    /\ IsDigit(b[3]) /\ IsDigit(b[4]) /\ IsDigit(b[5])

\* ------------------------------------------------------------------------
\* CARD ID NORMALIZATION
\* ------------------------------------------------------------------------
\* the version resolved with the embedded marker taking precedence
EffectiveVersion_EmbeddedFirst(v_query, embedded_v) ==
    LET version == IF embedded_v # None THEN embedded_v[1]
                   ELSE IF v_query # None THEN v_query[1] ELSE 0
    IN  IF version < 0 THEN 0 ELSE version

\* the version of normalize_card_and_version: the explicit v_query first,
\* then the embedded marker, then 0; negative values clamp to 0
EffectiveVersion(v_query, embedded_v) ==
    LET version == IF v_query # None THEN v_query[1]
                   ELSE IF embedded_v # None THEN embedded_v[1] ELSE 0
    IN  IF version < 0 THEN 0 ELSE version

\* the base of both normalizers: query fragment cut, markers removed
StripBase(s) == Strip(SubVMarker(SplitQuery(s)))

ValidBase(base) == NORMAL_ID_RE(base) \/ PROMO_ID_RE(base)

\* normalize_card_and_version(card_id_raw, v_query):
\* [ok |-> TRUE, base, version], or ok = FALSE for the ValueError
normalize_card_and_version(card_id_raw, v_query) ==
    Bind(Upper(Strip(card_id_raw)), LAMBDA s :
    Bind(EMBEDDED_V_ANY_RE(s), LAMBDA any :
    Bind(StripBase(s), LAMBDA base :
    LET embedded == IF any # None THEN any ELSE EMBEDDED_V_PATH_RE(s)
        embedded_v == IF embedded # None THEN Some(ParseInt(embedded[1])) ELSE None
        version == EffectiveVersion(v_query, embedded_v)
    IN  IF ~ValidBase(base)
        THEN [ok |-> FALSE, base |-> <<>>, version |-> 0]
        ELSE [ok |-> TRUE, base |-> base, version |-> version])))

\* the suffix written the way get_price writes its cache key
HistoryKey_Query(base, version) ==
    IF version > 0 THEN base \o <<"?", "v", "=">> \o FormatInt(version) ELSE base

\* the "v=K" suffix rule of normalize_history_id
HistoryKey(base, version) ==
    IF version > 0 THEN base \o <<"v", "=">> \o FormatInt(version) ELSE base

\* normalize_history_id(card_id_raw)
normalize_history_id(card_id_raw) ==
    Bind(Upper(Strip(card_id_raw)), LAMBDA s :
    Bind(EMBEDDED_V_PATH_RE(s), LAMBDA m :
    Bind(StripBase(s), LAMBDA base0 :
    LET version == IF m # None THEN ParseInt(m[1]) ELSE 0
        base == IF ~ValidBase(base0)
                THEN Strip(RemoveChar(RemoveChar(base0, " "), "/"))
                ELSE base0
    IN  HistoryKey(base, version))))

\* ------------------------------------------------------------------------
\* State
\* ------------------------------------------------------------------------
VARIABLES
    now,          \* time.time(), in ticks of twelve hours
    data,         \* TTLCacheLRU._data: entries [k, ts, val], least recently used first
    ret,          \* the last call and what it returned
    order,        \* history: the keys ever set, least recently accessed first
    swept,        \* history: some entry has been removed for being expired
    lastSet,      \* history: key -> None or Some([at, val]) of its latest set
    sizeEvicted,  \* history: keys the size sweep evicted since their latest set
    db,           \* history.db as committed: the rows of the three tables
    job,          \* the run of daily_snapshot.main, with its open transaction
    lock,         \* TTLCacheLRU._lock: None, or Some(the handler holding it)
    th,           \* the request handlers running get_price step by step
    snap          \* history: _data when the lock was last acquired or released

cacheVars == <<data, ret, order, swept, lastSet, sizeEvicted>>
storeVars == <<db, job>>
concVars == <<lock, th, snap>>
vars == <<now, cacheVars, storeVars, concVars>>

\* ------------------------------------------------------------------------
\* SMALL, BOUNDED TTL + LRU CACHE
\* ------------------------------------------------------------------------
\* ttl_seconds = 24 * 3600 of PRICE_CACHE: one day, which is two ticks of the
\* clock (a tick is twelve hours)
TTL == 2

\* the calendar day of a clock reading (TODAY, datetime.utcnow().date())
Date(t) == t \div TTL

Keys(d) == {d[i].k : i \in 1..Len(d)}
Has(d, key) == \E i \in 1..Len(d) : d[i].k = key
Item(d, key) == d[CHOOSE i \in 1..Len(d) : d[i].k = key]
Pop(d, key) == SelectSeq(d, LAMBDA e : e.k # key)

\* now - ts > self.ttl
Expired(ttl, t, ts) == t - ts > ttl

\* OrderedDict.move_to_end(key, last=True)
move_to_end(d, key) == IF Has(d, key) THEN Pop(d, key) \o <<Item(d, key)>> ELSE d

\* self._data[key] = (now, value): in place for a key present, appended otherwise
SetItem(d, t, key, value) ==
    IF Has(d, key)
    THEN [i \in 1..Len(d) |->
            IF d[i].k = key THEN [k |-> key, ts |-> t, val |-> value] ELSE d[i]]
    ELSE Append(d, [k |-> key, ts |-> t, val |-> value])

\* TTLCacheLRU._evict_expired_locked(now): pop from the front until an entry
\* that is not expired
RECURSIVE evict_expired_locked(_, _, _)
evict_expired_locked(d, ttl, t) ==
    IF d = <<>> THEN d
    ELSE IF ~Expired(ttl, t, d[1].ts) THEN d
         ELSE evict_expired_locked(Pop(d, d[1].k), ttl, t)

\* while len(self._data) > self.maxsize: self._data.popitem(last=False)
RECURSIVE EnforceMaxsize(_, _)
EnforceMaxsize(d, maxsize) ==
    IF Len(d) > maxsize /\ d # <<>> THEN EnforceMaxsize(Tail(d), maxsize) ELSE d

\* get without the move_to_end of a hit
TTLCacheLRU_get_NoPromote(d, ttl, t, key) ==
    IF ~Has(d, key) THEN [data |-> d, val |-> None]
    ELSE IF Expired(ttl, t, Item(d, key).ts)
         THEN [data |-> Pop(d, key), val |-> None]
         ELSE [data |-> d, val |-> Some(Item(d, key).val)]

\* get that restarts the age of the entry it hits
TTLCacheLRU_get_Refresh(d, ttl, t, key) ==
    IF ~Has(d, key) THEN [data |-> d, val |-> None]
    ELSE IF Expired(ttl, t, Item(d, key).ts)
         THEN [data |-> Pop(d, key), val |-> None]
         ELSE [data |-> move_to_end(SetItem(d, t, key, Item(d, key).val), key),
               val |-> Some(Item(d, key).val)]

\* TTLCacheLRU.get(key) at time t: the cache afterwards and the value returned
TTLCacheLRU_get(d, ttl, t, key) ==
    IF ~Has(d, key) THEN [data |-> d, val |-> None]
    ELSE IF Expired(ttl, t, Item(d, key).ts)
         THEN [data |-> Pop(d, key), val |-> None]
         ELSE [data |-> move_to_end(d, key), val |-> Some(Item(d, key).val)]

\* TTLCacheLRU.set(key, value) at time t: the cache afterwards
TTLCacheLRU_set(d, maxsize, ttl, t, key, value) ==
    EnforceMaxsize(
        evict_expired_locked(move_to_end(SetItem(d, t, key, value), key), ttl, t),
        maxsize)

\* TTLCacheLRU.stats()
TTLCacheLRU_stats(d, maxsize) == [size |-> Len(d), maxsize |-> maxsize]

\* ------------------------------------------------------------------------
\* A TTLCacheLRU(maxsize=MaxEntries, ttl_seconds=24 * 3600) called directly
\* ------------------------------------------------------------------------
CacheKeys == {"k1", "k2", "k3"}
CacheVals == {"a", "b"}

Touch(o, key) == SelectSeq(o, LAMBDA x : x # key) \o <<key>>

InitCache ==
    /\ data = <<>>
    /\ order = <<>>
    /\ swept = FALSE
    /\ lastSet = [k \in CacheKeys |-> None]
    /\ sizeEvicted = {}

CacheGet(key) ==
    LET r == TTLCacheLRU_get(data, TTL, now, key)
    IN  /\ data' = r.data
        /\ ret' = [op |-> "get", key |-> key, at |-> now, val |-> r.val]
        /\ order' = IF r.val # None THEN Touch(order, key) ELSE order
        /\ swept' = (swept \/ (Has(data, key) /\ ~Has(r.data, key)))
        /\ UNCHANGED <<now, lastSet, sizeEvicted, storeVars, concVars>>

CacheSet(key, value) ==
    LET placed == move_to_end(SetItem(data, now, key, value), key)
        fresh == evict_expired_locked(placed, TTL, now)
        after == TTLCacheLRU_set(data, MaxEntries, TTL, now, key, value)
    IN  /\ data' = after
        /\ ret' = [op |-> "set", key |-> key, at |-> now, val |-> Some(value)]
        /\ order' = Touch(order, key)
        /\ swept' = (swept \/ Keys(fresh) # Keys(placed))
        /\ lastSet' = [lastSet EXCEPT ![key] = Some([at |-> now, val |-> value])]
        /\ sizeEvicted' = (sizeEvicted \ {key}) \cup (Keys(fresh) \ Keys(after))
        /\ UNCHANGED <<now, storeVars, concVars>>

Tick ==
    /\ now < MaxClock
    /\ now' = now + 1
    /\ UNCHANGED <<cacheVars, storeVars, concVars>>

NextCache ==
    \/ \E key \in CacheKeys : CacheGet(key)
    \/ \E key \in CacheKeys, value \in CacheVals : CacheSet(key, value)
    \/ Tick

\* ------------------------------------------------------------------------
\* normalize_card_and_version applied to identifiers built from their parts
\* ------------------------------------------------------------------------
OP01_001 == <<"O", "P", "0", "1", "-", "0", "0", "1">>
ST10_999 == <<"S", "T", "1", "0", "-", "9", "9", "9">>
V00_000 == <<"V", "0", "0", "-", "0", "0", "0">>
P_001 == <<"P", "-", "0", "0", "1">>

\* base codes valid under the standard or the promotional grammar
NormBases == {OP01_001, ST10_999, V00_000, P_001}

\* the accepted spellings of the marker: "V=e", "v=e", "?v=e"
MarkerForms == {<<"V", "=">>, <<"v", "=">>, <<"?", "v", "=">>}

\* marker values, with one, two and three digits
MarkerValues == (0..MaxVersion) \cup {10 * (MaxVersion + 1), 100 + MaxVersion}

\* explicit versions: None, or an integer that may be negative
ExplicitVersions == {None} \cup {Some(x) : x \in -1..(MaxVersion + 1)}

\* an identifier as a caller spells it: the base, then the marker if any
Spell(in) ==
    IF in.e = None THEN in.base ELSE in.base \o in.form \o FormatInt(in.e[1])

NormInputs ==
    [base : NormBases, form : {<<>>}, e : {None}, x : ExplicitVersions]
    \cup [base : NormBases, form : MarkerForms,
          e : {Some(e) : e \in MarkerValues}, x : ExplicitVersions]

InitNorm == \E in \in NormInputs : ret = [op |-> "input", in |-> in, raw |-> Spell(in)]

Normalize ==
    /\ ret.op = "input"
    /\ ret' = [op |-> "normalize", in |-> ret.in, raw |-> ret.raw,
               out |-> normalize_card_and_version(ret.raw, ret.in.x)]
    /\ UNCHANGED <<now, data, order, swept, lastSet, sizeEvicted, storeVars, concVars>>

NextNorm == Normalize

\* ------------------------------------------------------------------------
\* normalize_history_id applied to the same identifiers, and to its own result
\* ------------------------------------------------------------------------
\* whitespace a caller may leave around the identifier
Paddings == {<<>>, <<" ">>}

HistoryInputs ==
    [base : NormBases, form : {<<>>}, e : {None}, pad : Paddings]
    \cup [base : NormBases, form : MarkerForms,
          e : {Some(e) : e \in MarkerValues}, pad : Paddings]

InitHistoryNorm ==
    \E in \in HistoryInputs :
        ret = [op |-> "history_input", in |-> in,
               raw |-> in.pad \o Spell(in) \o in.pad]

NormalizeHistory ==
    /\ ret.op = "history_input"
    /\ \E once \in {normalize_history_id(ret.raw)} :
          ret' = [op |-> "history_id", in |-> ret.in, raw |-> ret.raw,
                  strict |-> normalize_card_and_version(ret.raw, None),
                  once |-> once, twice |-> normalize_history_id(once)]
    /\ UNCHANGED <<now, data, order, swept, lastSet, sizeEvicted, storeVars, concVars>>

NextHistoryId == NormalizeHistory

\* ------------------------------------------------------------------------
\* LIMITLESS SCRAPER
\* ------------------------------------------------------------------------
\* What the upstream host answers to one fetch: status "fail" stands for the
\* exception of SESSION.get or raise_for_status; otherwise table tells whether
\* a table is selected in the page, and rows are its rows without a th cell, a
\* row being the parsed usd and eur prices (in cents) and the links.
NoLinksRow == [usd |-> 0, eur |-> 0, usd_url |-> None, eur_url |-> None]
PrintRow(i) ==
    [usd |-> 600 * (i + 1), eur |-> 500 * (i + 1),
     usd_url |-> Some(<<"usd", i>>), eur_url |-> Some(<<"eur", i>>)]
Listing(n) == [i \in 1..n |-> PrintRow(i)]

FetchFailed == [status |-> "fail", table |-> FALSE, rows |-> <<>>]
NoTable == [status |-> "ok", table |-> FALSE, rows |-> <<>>]
Table(rows) == [status |-> "ok", table |-> TRUE, rows |-> rows]

Documents == {FetchFailed, NoTable} \cup {Table(Listing(n)) : n \in 0..MaxRows}

ZeroPrices == [usd_price |-> 0, eur_price |-> 0, usd_url |-> None, eur_url |-> None]

\* scrape_prices that answers a failed fetch with zero prices, as
\* scrape_card_price does
scrape_prices_Swallow(base_id, version, doc) ==
    IF doc.status = "fail" \/ ~doc.table \/ doc.rows = <<>>
    THEN [raised |-> FALSE, prices |-> ZeroPrices]
    ELSE LET index == IF version >= Len(doc.rows) THEN 0 ELSE version
         IN  [raised |-> FALSE,
              prices |-> [usd_price |-> doc.rows[index + 1].usd,
                          eur_price |-> doc.rows[index + 1].eur,
                          usd_url |-> doc.rows[index + 1].usd_url,
                          eur_url |-> doc.rows[index + 1].eur_url]]

\* scrape_prices(base_id, version) when the host answers doc: the dict
\* returned, or the exception that leaves the function
scrape_prices(base_id, version, doc) ==
    IF doc.status = "fail" THEN [raised |-> TRUE, exc |-> "RequestException"]
    ELSE IF ~doc.table THEN [raised |-> FALSE, prices |-> ZeroPrices]
    ELSE LET index == IF doc.rows = <<>> \/ version >= Len(doc.rows)
                      THEN 0 ELSE version
         IN  IF index >= Len(doc.rows)
             THEN [raised |-> TRUE, exc |-> "IndexError"]
             ELSE [raised |-> FALSE,
                   prices |-> [usd_price |-> doc.rows[index + 1].usd,
                               eur_price |-> doc.rows[index + 1].eur,
                               usd_url |-> doc.rows[index + 1].usd_url,
                               eur_url |-> doc.rows[index + 1].eur_url]]

\* ------------------------------------------------------------------------
\* The /price requests of the model
\* ------------------------------------------------------------------------
\* OP01-001 and its versions, these in two spellings, and a promotional code
ValidRequests ==
    { [raw |-> OP01_001, v |-> None],
      [raw |-> <<" ", "p", "-", "0", "0", "1">>, v |-> None] }
    \cup {[raw |-> OP01_001 \o <<"V", "=">> \o FormatInt(e), v |-> None] :
             e \in 1..MaxVersion}
    \cup {[raw |-> OP01_001 \o <<"?", "v", "=", "0">>, v |-> Some(e)] :
             e \in 1..MaxVersion}

\* identifiers whose base matches neither grammar
InvalidRequests ==
    { [raw |-> <<"O", "P", "1", "-", "0", "0", "1">>, v |-> None],
      [raw |-> <<"O", "P", "0", "1", "-", "0", "0", "1", "1">>, v |-> Some(1)],
      [raw |-> <<"0", "1", "-", "0", "0", "1", "?", "v", "=", "1">>, v |-> None],
      [raw |-> <<"P", "-", "0", "0", "1", "V", "=">>, v |-> None],
      [raw |-> <<"O", "P", "0", "1", "_", "0", "0", "1">>, v |-> None],
      [raw |-> <<>>, v |-> None] }

Requests == ValidRequests \cup InvalidRequests

\* ------------------------------------------------------------------------
\* PRICE ENDPOINT
\* ------------------------------------------------------------------------
\* a cache key that leaves the version out
CacheKey_BaseOnly(base, version) == base

\* cache_key = f"{base}?v={version}" if version > 0 else base
CacheKey(base, version) ==
    IF version > 0 THEN base \o <<"?", "v", "=">> \o FormatInt(version) ELSE base

\* get_price(card_id, v) called at time t, the host answering doc (PRICE_CACHE
\* has maxsize MaxEntries here): the cache afterwards, whether the host was
\* fetched, and
\* the response (kind "error": the error payload; "ok": the price payload;
\* "raise": an exception leaves the handler)
get_price(d, t, card_id, v, doc) ==
    Bind(normalize_card_and_version(card_id, v), LAMBDA n :
    IF ~n.ok
    THEN [data |-> d, fetched |-> FALSE,
          resp |-> [kind |-> "error", card_id |-> card_id,
                    error |-> "Invalid card_id format"]]
    ELSE
    Bind(CacheKey(n.base, n.version), LAMBDA cache_key :
    Bind(TTLCacheLRU_get(d, TTL, t, cache_key), LAMBDA hit :
    IF hit.val # None
    THEN [data |-> hit.data, fetched |-> FALSE,
          resp |-> [kind |-> "ok", card_id |-> cache_key,
                    prices |-> hit.val[1], cached |-> TRUE,
                    cache |-> TTLCacheLRU_stats(hit.data, MaxEntries)]]
    ELSE
    Bind(scrape_prices(n.base, n.version, doc), LAMBDA scraped :
    IF scraped.raised
    THEN [data |-> hit.data, fetched |-> TRUE,
          resp |-> [kind |-> "raise", exc |-> scraped.exc]]
    ELSE
    Bind(TTLCacheLRU_set(hit.data, MaxEntries, TTL, t, cache_key,
                         scraped.prices), LAMBDA stored :
         [data |-> stored, fetched |-> TRUE,
          resp |-> [kind |-> "ok", card_id |-> cache_key,
                    prices |-> scraped.prices, cached |-> FALSE,
                    cache |-> TTLCacheLRU_stats(stored, MaxEntries)]])))))

\* One /price request. The document is recorded only when the host was
\* fetched: it plays no part otherwise.
GetPrice(rq, doc) ==
    \E r \in {get_price(data, now, rq.raw, rq.v, doc)} :
        /\ data' = r.data
        /\ ret' = [op |-> "price", raw |-> rq.raw, v |-> rq.v,
                   doc |-> IF r.fetched THEN Some(doc) ELSE None,
                   fetched |-> r.fetched, dropped |-> Len(r.data) < Len(data),
                   resp |-> r.resp]
        /\ UNCHANGED <<now, order, swept, lastSet, sizeEvicted, storeVars, concVars>>

NextPrice ==
    \/ \E rq \in ValidRequests, doc \in Documents : GetPrice(rq, doc)
    \/ \E rq \in InvalidRequests : GetPrice(rq, FetchFailed)
    \/ Tick

\* ------------------------------------------------------------------------
\* DB SETUP and SNAPSHOT (daily_snapshot.py)
\* ------------------------------------------------------------------------
\* the three tables of init_db, each a set of rows [key, date, eur, usd]
EmptyTables == [card |-> {}, sealed |-> {}, don |-> {}]

\* INSERT OR REPLACE: the new row takes the place of a row of its (key, date)
InsertOrIgnore_Replace(rows, row) ==
    {r \in rows : ~(r.key = row.key /\ r.date = row.date)} \cup {row}

\* INSERT OR IGNORE under UNIQUE(key, date): a row whose (key, date) is in the
\* table already is dropped
InsertOrIgnore(rows, row) ==
    IF \E r \in rows : r.key = row.key /\ r.date = row.date
    THEN rows ELSE rows \cup {row}

\* extract_versions(card_code) when the host answers doc
extract_versions(card_code, doc) ==
    IF doc.status = "fail" THEN [raised |-> TRUE, versions |-> <<>>]
    ELSE IF ~doc.table THEN [raised |-> FALSE, versions |-> <<>>]
    ELSE [raised |-> FALSE,
          versions |-> [n \in 1..Len(doc.rows) |->
                          IF n - 1 = 0 THEN card_code
                          ELSE card_code \o <<"v", "=">> \o FormatInt(n - 1)]]

\* re.match(r"([A-Z]+[0-9]{2}-[0-9]{3})", card_id): the group, or None
RECURSIVE UpperRunEnd(_, _)
UpperRunEnd(s, j) ==
    IF j <= Len(s) /\ IsUpper(s[j]) THEN UpperRunEnd(s, j + 1) ELSE j - 1

MatchBasePrefix(card_id) ==
    LET n == UpperRunEnd(card_id, 1)
    IN  IF /\ n >= 1
           /\ n + 6 <= Len(card_id)
           /\ IsDigit(card_id[n + 1]) /\ IsDigit(card_id[n + 2])
           /\ card_id[n + 3] = "-"
           /\ IsDigit(card_id[n + 4]) /\ IsDigit(card_id[n + 5])
           /\ IsDigit(card_id[n + 6])
        THEN Some(SubSeq(card_id, 1, n + 6))
        ELSE None

\* re.search(r"v=(\d+)", card_id): case-sensitive
SearchLowerV(s) ==
    LET starts == {i \in 1..Len(s) : VMarkerAt(s, i) /\ s[i] = "v"}
    IN  IF starts = {} THEN None
        ELSE LET i == MinOf(starts)
             IN  Some(SubSeq(s, i + 2, DigitRunEnd(s, i + 2)))

\* scrape_card_price(card_id) when the host answers doc: any exception inside
\* (no base matched, the fetch, an index out of range) returns (0.0, 0.0)
scrape_card_price(card_id, doc) ==
    Bind(MatchBasePrefix(card_id), LAMBDA base :
    Bind(SearchLowerV(card_id), LAMBDA m :
    Bind(IF m # None THEN ParseInt(m[1]) ELSE 0, LAMBDA version :
    Bind(IF version >= Len(doc.rows) THEN 0 ELSE version, LAMBDA index :
        IF base = None \/ doc.status = "fail" THEN [eur |-> 0, usd |-> 0]
        ELSE IF ~doc.table THEN [eur |-> 0, usd |-> 0]
        ELSE IF index >= Len(doc.rows) THEN [eur |-> 0, usd |-> 0]
        ELSE [eur |-> doc.rows[index + 1].eur, usd |-> doc.rows[index + 1].usd]))))

\* the state of main(): where it is, TODAY, the codes of
\* load_all_base_codes, the code and the version at hand, and the rows
\* inserted but not yet committed
IdleJob ==
    [pc |-> "idle", today |-> 0, codes |-> <<>>, i |-> 1, versions |-> <<>>,
     j |-> 1, pending |-> EmptyTables]

InitStore ==
    /\ db = EmptyTables
    /\ job = IdleJob

\* what the connection of main() sees of a table: committed and pending rows
Visible(t) == db[t] \cup job.pending[t]

\* the step of main() after the code at hand: the next code, or the sealed
\* section
AfterCode(jb) ==
    IF jb.i < Len(jb.codes)
    THEN [jb EXCEPT !.pc = "extract", !.i = jb.i + 1, !.versions = <<>>, !.j = 1]
    ELSE [jb EXCEPT !.pc = "sealed", !.versions = <<>>, !.j = 1]

\* main(): init_db, load_all_base_codes, connect
BatchStart(codes) ==
    /\ job.pc = "idle"
    /\ job' = [pc |-> IF codes = <<>> THEN "sealed" ELSE "extract",
               today |-> Date(now), codes |-> codes, i |-> 1,
               versions |-> <<>>, j |-> 1, pending |-> EmptyTables]
    /\ ret' = [op |-> "start"]
    /\ UNCHANGED <<now, data, order, swept, lastSet, sizeEvicted, db, concVars>>

\* main() without the try around the work on a code: the exception of
\* extract_versions leaves main, the rows inserted so far are never committed
BatchExtract_Abort(doc) ==
    /\ job.pc = "extract"
    /\ \E code \in {job.codes[job.i]} :
       \E x \in {extract_versions(code, doc)} :
           /\ job' = IF x.raised
                     THEN [IdleJob EXCEPT !.today = job.today]
                     ELSE IF x.versions = <<>>
                     THEN AfterCode(job)
                     ELSE [job EXCEPT !.pc = "scrape", !.versions = x.versions,
                                      !.j = 1]
           /\ ret' = [op |-> "extract", code |-> code, failed |-> x.raised]
    /\ UNCHANGED <<now, data, order, swept, lastSet, sizeEvicted, db, concVars>>

\* main(): versions = extract_versions(code); an exception ends the work on
\* this code
BatchExtract(doc) ==
    /\ job.pc = "extract"
    /\ \E code \in {job.codes[job.i]} :
       \E x \in {extract_versions(code, doc)} :
           /\ job' = IF x.raised \/ x.versions = <<>>
                     THEN AfterCode(job)
                     ELSE [job EXCEPT !.pc = "scrape", !.versions = x.versions,
                                      !.j = 1]
           /\ ret' = [op |-> "extract", code |-> code, failed |-> x.raised]
    /\ UNCHANGED <<now, data, order, swept, lastSet, sizeEvicted, db, concVars>>

\* main(): one round of "for cid in versions"
BatchScrape(doc) ==
    /\ job.pc = "scrape"
    /\ \E cid \in {job.versions[job.j]} :
       \E p \in {scrape_card_price(cid, doc)} :
       \E row \in {[key |-> cid, date |-> job.today, eur |-> p.eur, usd |-> p.usd]} :
       \E inserted \in {IF p.eur = 0 /\ p.usd = 0 THEN job.pending.card
                        ELSE InsertOrIgnore(Visible("card"), row) \ db.card} :
       \E jb \in {[job EXCEPT !.pending.card = inserted]} :
           /\ job' = IF job.j < Len(job.versions)
                     THEN [jb EXCEPT !.j = job.j + 1]
                     ELSE AfterCode(jb)
           /\ ret' = [op |-> "scrape", cid |-> cid,
                      failed |-> (doc.status = "fail"), row |-> row,
                      wrote |-> IF p.eur = 0 /\ p.usd = 0 THEN "skipped"
                                ELSE IF row \in inserted THEN "inserted"
                                ELSE "ignored"]
    /\ UNCHANGED <<now, data, order, swept, lastSet, sizeEvicted, db, concVars>>

\* the rows of load_collectr_snapshot(path) inserted one after the other
RECURSIVE InsertAll(_, _, _)
InsertAll(rows, items, date) ==
    IF items = <<>> THEN rows
    ELSE InsertAll(
            InsertOrIgnore(rows, [key |-> items[1].name, date |-> date,
                                  eur |-> items[1].eur, usd |-> items[1].usd]),
            Tail(items), date)

\* main(): the SEALED section
BatchSealed(items) ==
    /\ job.pc = "sealed"
    /\ job' = [job EXCEPT !.pc = "don",
                          !.pending.sealed =
                              InsertAll(Visible("sealed"), items, job.today)
                              \ db.sealed]
    /\ ret' = [op |-> "sealed"]
    /\ UNCHANGED <<now, data, order, swept, lastSet, sizeEvicted, db, concVars>>

\* main(): the DON section
BatchDon(items) ==
    /\ job.pc = "don"
    /\ job' = [job EXCEPT !.pc = "commit",
                          !.pending.don =
                              InsertAll(Visible("don"), items, job.today)
                              \ db.don]
    /\ ret' = [op |-> "don"]
    /\ UNCHANGED <<now, data, order, swept, lastSet, sizeEvicted, db, concVars>>

\* main(): conn.commit() and the end of the run
BatchCommit ==
    /\ job.pc = "commit"
    /\ db' = [t \in {"card", "sealed", "don"} |-> db[t] \cup job.pending[t]]
    /\ job' = [IdleJob EXCEPT !.today = job.today]
    /\ ret' = [op |-> "commit"]
    /\ UNCHANGED <<now, data, order, swept, lastSet, sizeEvicted, concVars>>

\* the next calendar day
NextDay ==
    /\ Date(now) < MaxDay
    /\ now' = now + TTL
    /\ UNCHANGED <<cacheVars, storeVars, concVars>>

\* what load_collectr_snapshot returns: nothing for a missing file, else the
\* (name, eur, usd) of the file's entries, two of which may share a name
SnapshotFiles ==
    { <<>>,
      <<[name |-> "Box", eur |-> 7500, usd |-> 10000]>>,
      <<[name |-> "Box", eur |-> 7500, usd |-> 10000],
        [name |-> "Box", eur |-> 6000, usd |-> 8000]>> }

NextStore ==
    \/ BatchStart(<<OP01_001>>)
    \/ \E doc \in Documents : BatchExtract(doc)
    \/ \E doc \in Documents : BatchScrape(doc)
    \/ \E items \in SnapshotFiles : BatchSealed(items)
    \/ \E items \in SnapshotFiles : BatchDon(items)
    \/ BatchCommit
    \/ NextDay

\* ------------------------------------------------------------------------
\* SQLITE HELPERS and HISTORY - CARDS (price_api.py)
\* ------------------------------------------------------------------------
DefaultLimit == 365
LimitCap == 2000

\* the limit of fetch_history as it reaches the query
EffectiveLimit(limit) ==
    LET l == IF limit # None THEN limit[1] ELSE DefaultLimit
        m == IF l <= 0 THEN DefaultLimit ELSE l
    IN  IF m > LimitCap THEN LimitCap ELSE m

\* ORDER BY date DESC LIMIT n over a set of rows (a DATE is TEXT in ISO form,
\* whose order is the order of the days)
RECURSIVE OrderByDateDesc(_, _)
OrderByDateDesc(rows, n) ==
    IF rows = {} \/ n <= 0 THEN <<>>
    ELSE LET r == CHOOSE x \in rows : \A y \in rows : y.date <= x.date
         IN  <<r>> \o OrderByDateDesc(rows \ {r}, n - 1)

\* ORDER BY date ASC LIMIT n
RECURSIVE OrderByDateAsc(_, _)
OrderByDateAsc(rows, n) ==
    IF rows = {} \/ n <= 0 THEN <<>>
    ELSE LET r == CHOOSE x \in rows : \A y \in rows : x.date <= y.date
         IN  <<r>> \o OrderByDateAsc(rows \ {r}, n - 1)

Reverse(q) == [i \in 1..Len(q) |-> q[Len(q) + 1 - i]]

\* the oldest rows instead of the most recent
fetch_history_Oldest(table, key_val, limit) ==
    LET found == OrderByDateAsc({r \in table : r.key = key_val},
                                EffectiveLimit(limit))
    IN  [i \in 1..Len(found) |-> <<found[i].date, found[i].eur, found[i].usd>>]

\* fetch_history(table, key_col, key_val, limit): the (date, eur, usd) of the
\* most recent rows of the key, reversed into ascending order
fetch_history(table, key_val, limit) ==
    LET found == Reverse(OrderByDateDesc({r \in table : r.key = key_val},
                                         EffectiveLimit(limit)))
    IN  [i \in 1..Len(found) |-> <<found[i].date, found[i].eur, found[i].usd>>]

\* get_history(card_id, limit)
get_history(card_id, limit) ==
    LET cid == normalize_history_id(card_id)
        rows == fetch_history(db.card, cid, limit)
    IN  [type |-> "card", id |-> cid, count |-> Len(rows),
         history |-> [i \in 1..Len(rows) |->
                        [date |-> rows[i][1], eur |-> rows[i][2],
                         usd |-> rows[i][3]]]]

\* the /history requests of the model
HistoryIds ==
    { OP01_001,
      OP01_001 \o <<"?", "v", "=", "1">>,
      <<"o", "p", "0", "1", "-", "0", "0", "1", "V", "=", "1">>,
      ST10_999 }
HistoryLimits == {None, Some(-1), Some(0), Some(LimitCap + 1)}
                    \cup {Some(l) : l \in 1..(MaxDay + 1)}

GetHistory(card_id, limit) ==
    /\ ret' = [op |-> "history", raw |-> card_id, limit |-> limit,
               sql_limit |-> EffectiveLimit(limit),
               resp |-> get_history(card_id, limit)]
    /\ UNCHANGED <<now, data, order, swept, lastSet, sizeEvicted, storeVars, concVars>>

\* the snapshot job on one code without the Collectr files, the days passing,
\* and the history read meanwhile
NextHist ==
    \/ BatchStart(<<OP01_001>>)
    \/ \E doc \in Documents : BatchExtract(doc)
    \/ \E doc \in Documents : BatchScrape(doc)
    \/ BatchSealed(<<>>)
    \/ BatchDon(<<>>)
    \/ BatchCommit
    \/ NextDay
    \/ \E card_id \in HistoryIds, limit \in HistoryLimits :
          GetHistory(card_id, limit)

\* ------------------------------------------------------------------------
\* The service and the snapshot job side by side
\* ------------------------------------------------------------------------
\* the host fails or lists MaxRows prints; OP01-001 is asked for in two
\* versions, and under a malformed identifier
SysDocuments == {FetchFailed, Table(Listing(MaxRows))}
SysRequests ==
    { [raw |-> OP01_001, v |-> None],
      [raw |-> OP01_001 \o <<"?", "v", "=", "0">>, v |-> Some(1)] }
SysInvalid == [raw |-> <<"O", "P", "1", "-", "0", "0", "1">>, v |-> None]

Next ==
    \/ \E rq \in SysRequests, doc \in SysDocuments : GetPrice(rq, doc)
    \/ GetPrice(SysInvalid, FetchFailed)
    \/ GetHistory(OP01_001 \o <<"?", "v", "=", "1">>, None)
    \/ BatchStart(<<OP01_001>>)
    \/ \E doc \in SysDocuments : BatchExtract(doc)
    \/ \E doc \in SysDocuments : BatchScrape(doc)
    \/ BatchSealed(<<>>)
    \/ BatchDon(<<>>)
    \/ BatchCommit
    \/ Tick

\* ------------------------------------------------------------------------
\* One run of the snapshot job after the other on two base codes, any fetch
\* failing or answering the full listing
\* ------------------------------------------------------------------------
\* load_all_base_codes(): the codes, sorted
BatchCodes == <<OP01_001, ST10_999>>

\* a step of main() once started: main is sequential and every fetch has a
\* timeout, so a started run keeps taking steps
JobStep ==
    \/ \E doc \in SysDocuments : BatchExtract(doc)
    \/ \E doc \in SysDocuments : BatchScrape(doc)
    \/ \E items \in SnapshotFiles : BatchSealed(items)
    \/ \E items \in SnapshotFiles : BatchDon(items)
    \/ BatchCommit

NextBatch ==
    \/ BatchStart(BatchCodes)
    \/ JobStep

\* ------------------------------------------------------------------------
\* Request handlers running get_price concurrently on PRICE_CACHE
\* ------------------------------------------------------------------------
Handlers == {"h1", "h2"}

IdleHandler ==
    [pc |-> "idle", base |-> <<>>, version |-> 0, key |-> <<>>, now |-> 0,
     prices |-> ZeroPrices, res |-> None, size |-> 0]

InitConc ==
    /\ lock = None
    /\ th = [h \in Handlers |-> IdleHandler]
    /\ snap = <<>>

\* the positions of a handler inside "with self._lock"
LockedPcs ==
    {"get_lookup", "get_update", "get_unlock", "set_insert", "set_move",
     "set_sweep", "set_trim", "set_unlock", "stats_read", "stats_unlock"}

\* a lock that never makes its caller wait
CanAcquire_Always(l) == TRUE

\* threading.Lock: acquired only while nobody holds it
CanAcquire(l) == l = None

\* with self._lock: (entering), from position `from` to position `to`
Acquire(h, from, to) ==
    /\ th[h].pc = from
    /\ CanAcquire(lock)
    /\ lock' = Some(h)
    /\ snap' = data
    /\ th' = [th EXCEPT ![h].pc = to]
    /\ UNCHANGED <<now, cacheVars, storeVars>>

\* with self._lock: (leaving)
Release(h, from, to) ==
    /\ th[h].pc = from
    /\ lock' = None
    /\ snap' = data
    /\ th' = [th EXCEPT ![h].pc = to]
    /\ UNCHANGED <<now, cacheVars, storeVars>>

\* get_price up to PRICE_CACHE.get: the identifier is normalized, the key is
\* built, and get reads the clock before it asks for the lock
ConcCall(h, rq) ==
    /\ th[h].pc = "idle"
    /\ \E n \in {normalize_card_and_version(rq.raw, rq.v)} :
          /\ n.ok
          /\ th' = [th EXCEPT ![h] =
                       [IdleHandler EXCEPT
                           !.pc = "get_lock",
                           !.base = n.base,
                           !.version = n.version,
                           !.key = CacheKey(n.base, n.version),
                           !.now = now]]
    /\ UNCHANGED <<now, cacheVars, storeVars, lock, snap>>

\* get: item = self._data.get(key); a missing key returns None
GetLookup(h) ==
    /\ th[h].pc = "get_lookup"
    /\ th' = [th EXCEPT ![h].pc =
                 IF Has(data, th[h].key) THEN "get_update" ELSE "get_unlock",
                        ![h].res = None]
    /\ UNCHANGED <<now, cacheVars, storeVars, lock, snap>>

\* get: an expired item is popped, another one is moved to the end and returned
GetUpdate(h) ==
    /\ th[h].pc = "get_update"
    /\ LET item == Item(data, th[h].key)
       IN  IF Expired(TTL, th[h].now, item.ts)
           THEN /\ data' = Pop(data, th[h].key)
                /\ th' = [th EXCEPT ![h].pc = "get_unlock", ![h].res = None]
           ELSE /\ data' = move_to_end(data, th[h].key)
                /\ th' = [th EXCEPT ![h].pc = "get_unlock",
                                    ![h].res = Some(item.val)]
    /\ UNCHANGED <<now, ret, order, swept, lastSet, sizeEvicted, storeVars,
                   lock, snap>>

\* scrape_prices(base, version) outside of any lock; a failed fetch ends the
\* request, otherwise set reads the clock before it asks for the lock
ConcFetch(h, doc) ==
    /\ th[h].pc = "fetch"
    /\ LET scraped == scrape_prices(th[h].base, th[h].version, doc)
       IN  th' = [th EXCEPT ![h] =
                     IF scraped.raised THEN IdleHandler
                     ELSE [th[h] EXCEPT !.pc = "set_lock", !.now = now,
                                        !.prices = scraped.prices]]
    /\ UNCHANGED <<now, cacheVars, storeVars, lock, snap>>

\* set: self._data[key] = (now, value)
SetInsert(h) ==
    /\ th[h].pc = "set_insert"
    /\ data' = SetItem(data, th[h].now, th[h].key, th[h].prices)
    /\ th' = [th EXCEPT ![h].pc = "set_move"]
    /\ UNCHANGED <<now, ret, order, swept, lastSet, sizeEvicted, storeVars,
                   lock, snap>>

\* set: self._data.move_to_end(key, last=True)
SetMove(h) ==
    /\ th[h].pc = "set_move"
    /\ data' = move_to_end(data, th[h].key)
    /\ th' = [th EXCEPT ![h].pc = "set_sweep"]
    /\ UNCHANGED <<now, ret, order, swept, lastSet, sizeEvicted, storeVars,
                   lock, snap>>

\* set: one round of the loop of _evict_expired_locked
SetSweep(h) ==
    /\ th[h].pc = "set_sweep"
    /\ IF data # <<>> /\ Expired(TTL, th[h].now, data[1].ts)
       THEN /\ data' = Pop(data, data[1].k)
            /\ UNCHANGED th
       ELSE /\ th' = [th EXCEPT ![h].pc = "set_trim"]
            /\ UNCHANGED data
    /\ UNCHANGED <<now, ret, order, swept, lastSet, sizeEvicted, storeVars,
                   lock, snap>>

\* set: one round of "while len(self._data) > self.maxsize"
SetTrim(h) ==
    /\ th[h].pc = "set_trim"
    /\ IF Len(data) > MaxEntries
       THEN /\ data' = Tail(data)
            /\ UNCHANGED th
       ELSE /\ th' = [th EXCEPT ![h].pc = "set_unlock"]
            /\ UNCHANGED data
    /\ UNCHANGED <<now, ret, order, swept, lastSet, sizeEvicted, storeVars,
                   lock, snap>>

\* stats: len(self._data)
StatsRead(h) ==
    /\ th[h].pc = "stats_read"
    /\ th' = [th EXCEPT ![h].pc = "stats_unlock", ![h].size = Len(data)]
    /\ UNCHANGED <<now, cacheVars, storeVars, lock, snap>>

\* get_price returns its payload
ConcReturn(h) ==
    /\ th[h].pc = "return"
    /\ th' = [th EXCEPT ![h] = IdleHandler]
    /\ UNCHANGED <<now, cacheVars, storeVars, lock, snap>>

\* the identifiers the handlers are asked for: three cache keys
ConcRequests ==
    { [raw |-> OP01_001, v |-> None],
      [raw |-> OP01_001 \o <<"V", "=", "1">>, v |-> None],
      [raw |-> <<" ", "p", "-", "0", "0", "1">>, v |-> None] }

NextConc ==
    \/ \E h \in Handlers, rq \in ConcRequests : ConcCall(h, rq)
    \/ \E h \in Handlers : Acquire(h, "get_lock", "get_lookup")
    \/ \E h \in Handlers : GetLookup(h)
    \/ \E h \in Handlers : GetUpdate(h)
    \/ \E h \in Handlers :
          Release(h, "get_unlock",
                  IF th[h].res # None THEN "stats_lock" ELSE "fetch")
    \/ \E h \in Handlers, doc \in SysDocuments : ConcFetch(h, doc)
    \/ \E h \in Handlers : Acquire(h, "set_lock", "set_insert")
    \/ \E h \in Handlers : SetInsert(h)
    \/ \E h \in Handlers : SetMove(h)
    \/ \E h \in Handlers : SetSweep(h)
    \/ \E h \in Handlers : SetTrim(h)
    \/ \E h \in Handlers : Release(h, "set_unlock", "stats_lock")
    \/ \E h \in Handlers : Acquire(h, "stats_lock", "stats_read")
    \/ \E h \in Handlers : StatsRead(h)
    \/ \E h \in Handlers : Release(h, "stats_unlock", "return")
    \/ \E h \in Handlers : ConcReturn(h)
    \/ Tick

\* ------------------------------------------------------------------------
\* Specifications
\* ------------------------------------------------------------------------
\* the service and the job as constructed, no call made yet
Constructed ==
    /\ now = 0
    /\ InitCache
    /\ InitStore
    /\ InitConc

Init == Constructed /\ ret = [op |-> "none"]

\* the same with an identifier waiting to be normalized
InitInput == Constructed /\ InitNorm

\* the same with an identifier waiting for the history normalizer
InitHistoryInput == Constructed /\ InitHistoryNorm

SpecCache == Init /\ [][NextCache]_vars
SpecNorm == InitInput /\ [][NextNorm]_vars
SpecPrice == Init /\ [][NextPrice]_vars
SpecStore == Init /\ [][NextStore]_vars
SpecHist == Init /\ [][NextHist]_vars
Spec == Init /\ [][Next]_vars
SpecConc == Init /\ [][NextConc]_vars
SpecHistoryId == InitHistoryInput /\ [][NextHistoryId]_vars
SpecBatch == Init /\ [][NextBatch]_vars /\ WF_vars(JobStep)

\* ------------------------------------------------------------------------
\* Properties of the cache called directly (SpecCache)
\* ------------------------------------------------------------------------
Min(a, b) == IF a < b THEN a ELSE b

\* the n most recently accessed of the keys ever set
Recent(o, n) == {o[i] : i \in (Len(o) - Min(n, Len(o)) + 1)..Len(o)}

\* C1: as long as no entry has been removed for being expired, the cache holds
\* exactly the min(MaxEntries, number of distinct keys ever set) most recently
\* accessed keys (an access is a set or a get hit), so never more than
\* MaxEntries entries.
C1_HoldsMostRecent ==
    ~swept =>
        /\ Len(data) <= MaxEntries
        /\ Len(data) = Min(MaxEntries, Len(order))
        /\ Keys(data) = Recent(order, MaxEntries)

\* MaxEntries + 1 distinct keys went in, nothing expired, and a get hit made
\* the evicted key another one than the first key inserted
C1_Witness ==
    /\ ~swept
    /\ ret.op = "set"
    /\ Len(order) = MaxEntries + 1
    /\ Len(data) = MaxEntries
    /\ order[1] \notin Keys(data)
    /\ lastSet[order[1]][1].at > lastSet[order[2]][1].at

\* C2: a get of a key whose latest set was at time t and which the size sweep
\* has not evicted returns the value of that set when less than TTL has passed
\* since t, and returns nothing and leaves the key absent when more than TTL
\* has passed; whatever a get returns is the value of the latest set of the
\* key, and not older than TTL.
C2_GetWithinTTL ==
    ret.op = "get" =>
        LET s == lastSet[ret.key]
        IN  /\ (s # None /\ ret.key \notin sizeEvicted) =>
                /\ ret.at - s[1].at < TTL => ret.val = Some(s[1].val)
                /\ ret.at - s[1].at > TTL =>
                      ret.val = None /\ ~Has(data, ret.key)
            /\ ret.val # None =>
                /\ s # None
                /\ ret.val = Some(s[1].val)
                /\ ret.at - s[1].at <= TTL

\* a get that found the entry of a key older than TTL and removed it, for a
\* key that was not evicted by the size sweep
C2_Witness ==
    /\ ret.op = "get"
    /\ lastSet[ret.key] # None
    /\ ret.key \notin sizeEvicted
    /\ ret.at - lastSet[ret.key][1].at > TTL
    /\ ret.val = None
    /\ swept

\* ------------------------------------------------------------------------
\* Properties of normalize_card_and_version (SpecNorm)
\* ------------------------------------------------------------------------
\* C6: for a valid base B with the marker value e appended in an accepted form
\* (or no marker) and an explicit version x (or none), normalize returns base B
\* and version max(0, x) when x is supplied, otherwise e when there is a marker,
\* otherwise 0.
C6_NormalizeVersion ==
    ret.op = "normalize" =>
        /\ ret.out.ok
        /\ ret.out.base = ret.in.base
        /\ ret.out.version =
              IF ret.in.x # None
              THEN (IF ret.in.x[1] < 0 THEN 0 ELSE ret.in.x[1])
              ELSE IF ret.in.e # None THEN ret.in.e[1] ELSE 0

\* normalize(B + "V=" + v) without an explicit version, for a v of several
\* digits, has returned (B, v)
C6_Witness ==
    /\ ret.op = "normalize"
    /\ ret.in.form = <<"V", "=">>
    /\ ret.in.x = None
    /\ ret.in.e # None
    /\ ret.in.e[1] >= 10
    /\ ret.out = [ok |-> TRUE, base |-> ret.in.base, version |-> ret.in.e[1]]

\* ------------------------------------------------------------------------
\* Properties of the Snapshot Store (SpecStore, SpecHist)
\* ------------------------------------------------------------------------
TableNames == {"card", "sealed", "don"}

OneRowPerKeyAndDate ==
    \A t \in TableNames : \A r1, r2 \in Visible(t) :
        (r1.key = r2.key /\ r1.date = r2.date) => r1 = r2

RowsStay == \A t \in TableNames : Visible(t) \subseteq Visible(t)'

\* C3: each history table holds at most one row per (key, date), and no step
\* removes or changes a row once written, so the row of a pair carries the
\* prices of the first write for it and a later write for the pair changes
\* nothing.
C3_FirstWriteWins == []OneRowPerKeyAndDate /\ [][RowsStay]_vars

\* a second run on the same date has tried to write other prices for a pair
\* that is stored already, and the write was ignored
C3_Witness ==
    /\ ret.op = "scrape"
    /\ ret.wrote = "ignored"
    /\ ret.row \notin Visible("card")
    /\ \E r \in db.card : r.key = ret.row.key /\ r.date = ret.row.date

\* the rows of a key in the card table
RowsOf(key) == {r \in db.card : r.key = key}

\* C10: history returns exactly the L most recently dated rows of the key in
\* ascending date order, L being the smaller of the effective limit (the
\* requested limit capped at 2000, 365 for a missing or non-positive one) and
\* the number of rows of the key; rows of other keys never appear.
C10_HistoryMostRecent ==
    ret.op = "history" =>
        LET h == ret.resp.history
            mine == RowsOf(ret.resp.id)
            asked == IF ret.limit = None \/ ret.limit[1] <= 0 THEN 365
                     ELSE Min(ret.limit[1], 2000)
            L == Min(asked, Cardinality(mine))
        IN  /\ ret.sql_limit = asked
            /\ ret.resp.count = L
            /\ Len(h) = L
            /\ \A i \in 1..(Len(h) - 1) : h[i].date < h[i + 1].date
            /\ \A i \in 1..Len(h) :
                  /\ [key |-> ret.resp.id, date |-> h[i].date,
                      eur |-> h[i].eur, usd |-> h[i].usd] \in mine
                  /\ Cardinality({r \in mine : r.date > h[i].date}) < L

\* a history cut by its limit: the key has more rows than asked for, and
\* another key has rows too
C10_Witness ==
    /\ ret.op = "history"
    /\ ret.limit # None
    /\ ret.limit[1] > 0
    /\ Cardinality(RowsOf(ret.resp.id)) > ret.limit[1]
    /\ ret.resp.count = ret.limit[1]
    /\ \E r \in db.card : r.key # ret.resp.id

\* ------------------------------------------------------------------------
\* Properties of the /price endpoint (SpecPrice, Spec)
\* ------------------------------------------------------------------------
\* the canonical textual encoding of (base, version)
Canonical(base, version) ==
    IF version = 0 THEN base ELSE base \o <<"v", "=">> \o FormatInt(version)

CanonicalIds ==
    {Canonical(b, v) : b \in {OP01_001, P_001}, v \in 0..(MaxVersion + MaxRows)}

\* C4: the canonical encoding of (base, version) is the key of the price
\* cache, the card_id of the /price response, the key the snapshot job writes
\* and the key the history lookup queries with.
C4_OneEncoding ==
    /\ \A i \in 1..Len(data) : data[i].k \in CanonicalIds
    /\ (ret.op = "price" /\ ret.resp.kind = "ok") =>
          LET n == normalize_card_and_version(ret.raw, ret.v)
          IN  ret.resp.card_id = Canonical(n.base, n.version)
    /\ \A r \in Visible("card") : r.key \in CanonicalIds
    /\ ret.op = "history" => ret.resp.id \in CanonicalIds

\* the row the Version Resolver owes for a list of rows and a version
ResolvedRow(rows, version) ==
    IF rows = <<>> THEN NoLinksRow
    ELSE IF version < Len(rows) THEN rows[version + 1] ELSE rows[1]

\* C5: version resolution never fails: whenever the host answered, the prices
\* are those of rows[v] when v < len(rows), of rows[0] when v >= len(rows) > 0,
\* and all zero when there are no rows, be it for want of a table or for a
\* table without rows.
C5_ResolveNeverFails ==
    (ret.op = "price" /\ ret.fetched /\ ret.doc[1].status = "ok") =>
        LET n == normalize_card_and_version(ret.raw, ret.v)
            row == ResolvedRow(ret.doc[1].rows, n.version)
        IN  /\ ret.resp.kind = "ok"
            /\ ret.resp.prices.usd_price = row.usd
            /\ ret.resp.prices.eur_price = row.eur

InvalidRaws == {rq.raw : rq \in InvalidRequests}

\* C7: for an identifier whose base matches neither grammar the /price
\* response holds card_id (the identifier as given) and error and nothing
\* more, the host is not fetched and the price cache stays as it was.
C7_InvalidRejected ==
    [][(ret'.op = "price" /\ ret'.raw \in InvalidRaws) =>
          /\ ret'.resp.kind = "error"
          /\ DOMAIN ret'.resp = {"kind", "card_id", "error"}
          /\ ret'.resp.card_id = ret'.raw
          /\ ~ret'.fetched
          /\ data' = data]_vars

\* a malformed identifier was rejected while the price cache held entries
C7_Witness ==
    /\ ret.op = "price"
    /\ ret.raw \in InvalidRaws
    /\ ret.resp.kind = "error"
    /\ Len(data) = MaxEntries

\* a handler is inside "with self._lock" exactly when it holds the lock
HoldsLockInside ==
    \A h \in Handlers : (th[h].pc \in LockedPcs) <=> (lock = Some(h))

\* at the end of its locked block, a call has done to the cache what the whole
\* get, set or stats does to the cache as it was when the lock was acquired,
\* with the clock value the call read on entry
WholeCallApplied ==
    \A h \in Handlers :
        /\ th[h].pc = "get_unlock" =>
              LET r == TTLCacheLRU_get(snap, TTL, th[h].now, th[h].key)
              IN  data = r.data /\ th[h].res = r.val
        /\ th[h].pc = "set_unlock" =>
              data = TTLCacheLRU_set(snap, MaxEntries, TTL, th[h].now,
                                     th[h].key, th[h].prices)
        /\ th[h].pc = "stats_unlock" =>
              /\ data = snap
              /\ th[h].size = TTLCacheLRU_stats(snap, MaxEntries).size

\* between two locked blocks the cache is as the last block left it, and it
\* is within its size bound; no stats call ever saw more
NothingInBetween ==
    /\ lock = None => data = snap /\ Len(data) <= MaxEntries
    /\ \A h \in Handlers : th[h].size <= MaxEntries

\* C8: under any interleaving of the handlers' get, set and stats calls, the
\* lock is held exactly inside the locked blocks of get, set and stats (so
\* never during the upstream fetch), each call's effect is that of the whole
\* call applied to the cache left by the previous lock holder (a serial order:
\* the order of lock acquisitions), and the cache between insertion and sweeps,
\* for instance above max_entries, is never what another caller finds or counts
C8_CallsAtomic ==
    /\ HoldsLockInside
    /\ WholeCallApplied
    /\ NothingInBetween

\* one handler is inside set with the cache above its size bound while the
\* other, which was called earlier and has fetched, waits for the lock
C8_Witness ==
    \E h, g \in Handlers :
        /\ th[h].pc = "set_trim"
        /\ Len(data) > MaxEntries
        /\ th[g].pc = "set_lock"
        /\ th[g].now < th[h].now

\* a /price request whose fetch failed, and a step of the snapshot job whose
\* fetch failed
PriceFetchFailed ==
    ret'.op = "price" /\ ret'.fetched /\ ret'.doc = Some(FetchFailed)
BatchFetchFailed == ret'.op \in {"extract", "scrape"} /\ ret'.failed

NoRowWritten == db' = db /\ job'.pending = job.pending

\* C9 as claimed: a failed fetch leaves the price cache exactly as it was
\* before the request, and inserts no row on the batch path.
C9_FailedFetchWritesNothing ==
    [][/\ PriceFetchFailed => data' = data
       /\ BatchFetchFailed => NoRowWritten]_vars

\* C9 amended: after a /price request whose fetch failed the price cache is
\* the cache of before without the expired entry of the requested key, if it
\* held one: nothing is added, changed or promoted; on the batch path no row
\* is inserted.
C9_FailedFetchAddsNothing ==
    [][/\ PriceFetchFailed =>
            LET n == normalize_card_and_version(ret'.raw, ret'.v)
                key == CacheKey(n.base, n.version)
            IN  data' = SelectSeq(data,
                            LAMBDA e : e.k # key \/ now - e.ts <= TTL)
       /\ BatchFetchFailed => NoRowWritten]_vars

\* a failed fetch on the /price path after the lookup dropped the expired
\* entry of the key, other entries staying, while the job has rows pending
C9_Witness ==
    /\ ret.op = "price"
    /\ ret.fetched
    /\ ret.doc = Some(FetchFailed)
    /\ ret.resp.kind = "raise"
    /\ ret.dropped
    /\ data # <<>>
    /\ job.pending.card # {}

\* ------------------------------------------------------------------------
\* Properties of the /price payload (Spec)
\* ------------------------------------------------------------------------
\* the rows of the card table that can serve as the baseline of key at time t:
\* the most recent of those dated at or before t minus 7 days
BaselineRows(key, t) ==
    LET old == {r \in db.card : r.key = key /\ r.date <= Date(t) - 7}
    IN  {r \in old : \A q \in old : q.date <= r.date}

\* pct is ((fresh - baseline) / baseline) * 100, and 0 without a positive
\* baseline; stated without division
IsPctChange(pct, fresh, baselines) ==
    IF baselines = {} \/ \E b \in baselines : b <= 0
    THEN pct = 0
    ELSE \A b \in baselines : pct * b = (fresh - b) * 100

\* C11: every successful /price result carries pct_7d and pct_7d_usd, each
\* the percentage change of the fresh price against the most recent stored row
\* of the same canonical identifier dated at or before now minus 7 days, and 0
\* when there is no such row or its price is not positive
C11_TrendFields ==
    (ret.op = "price" /\ ret.resp.kind = "ok") =>
        LET n == normalize_card_and_version(ret.raw, ret.v)
            rows == BaselineRows(HistoryKey(n.base, n.version), now)
            prices == ret.resp.prices
        IN  /\ {"pct_7d", "pct_7d_usd"} \subseteq DOMAIN prices
            /\ IsPctChange(prices.pct_7d, prices.eur_price,
                           {r.eur : r \in rows})
            /\ IsPctChange(prices.pct_7d_usd, prices.usd_price,
                           {r.usd : r \in rows})

\* ------------------------------------------------------------------------
\* Properties of the snapshot job (SpecBatch)
\* ------------------------------------------------------------------------
\* where main() may be after a step from jb: at the next version of the code,
\* at the next code, or past the last code in the sealed section, then don,
\* then the commit
LoopAdvances(jb, jb2) ==
    LET afterCode ==
            \/ jb.i < Len(jb.codes) /\ jb2.pc = "extract" /\ jb2.i = jb.i + 1
            \/ jb.i = Len(jb.codes) /\ jb2.pc = "sealed"
    IN  /\ jb.pc = "idle" => jb2.pc = "extract" /\ jb2.i = 1
        /\ jb.pc = "extract" =>
              \/ jb2.pc = "scrape" /\ jb2.i = jb.i /\ jb2.j = 1
              \/ afterCode
        /\ jb.pc = "scrape" =>
              \/ /\ jb.j < Len(jb.versions)
                 /\ jb2.pc = "scrape" /\ jb2.i = jb.i /\ jb2.j = jb.j + 1
              \/ jb.j = Len(jb.versions) /\ afterCode
        /\ jb.pc = "sealed" => jb2.pc = "don"
        /\ jb.pc = "don" => jb2.pc = "commit"
        /\ jb.pc = "commit" => jb2.pc = "idle"
        /\ jb2.pc # "idle" => jb2.codes = BatchCodes

\* a version scraped with a non-zero price has a row of today afterwards, no
\* row seen by the run goes away, and the commit stores all of them
RowsOfOthersKept ==
    /\ (ret'.op = "scrape" /\ (ret'.row.eur # 0 \/ ret'.row.usd # 0)) =>
          \E r \in Visible("card")' :
              r.key = ret'.cid /\ r.date = job.today
    /\ \A t \in TableNames : Visible(t) \subseteq Visible(t)'
    /\ ret'.op = "commit" =>
          \A t \in TableNames : db'[t] = db[t] \cup job.pending[t]

\* C12: whatever fetches fail, each step of the run goes to the next version,
\* the next code in order, the sealed section after the last code, the don
\* section and the commit; every version that yields a non-zero price has its
\* row, rows are not lost, and a started run reaches its commit
C12_BatchSurvivesFailures ==
    /\ [][LoopAdvances(job, job') /\ RowsOfOthersKept]_vars
    /\ (job.pc # "idle") ~> (job.pc = "idle" /\ ret.op = "commit")

\* a run has committed in which every fetch for the first code failed (no row
\* of it) and both versions of the second code and a sealed item have rows
C12_Witness ==
    /\ ret.op = "commit"
    /\ ~\E r \in db.card : r.key = OP01_001 \/ r.key = OP01_001 \o <<"v", "=", "1">>
    /\ \E r \in db.card : r.key = ST10_999
    /\ \E r \in db.card : r.key = ST10_999 \o <<"v", "=", "1">>
    /\ db.sealed # {}

\* ------------------------------------------------------------------------
\* Properties of normalize_history_id (SpecHistoryId)
\* ------------------------------------------------------------------------
\* C13: normalize_history_id maps every accepted spelling of (B, v) to
\* enc(B, v), maps enc(B, v) to itself, and applied to its own result returns
\* that result
C13_HistoryIdFixedPoint ==
    (ret.op = "history_id" /\ ret.strict.ok) =>
        /\ ret.once = Canonical(ret.strict.base, ret.strict.version)
        /\ ret.raw = Canonical(ret.strict.base, ret.strict.version) =>
              ret.once = ret.raw
        /\ ret.twice = ret.once

\* the canonical encoding of a version of several digits went through the
\* normalizer twice and came back as it was
C13_Witness ==
    /\ ret.op = "history_id"
    /\ ret.strict.ok
    /\ ret.strict.version >= 10
    /\ ret.raw = Canonical(ret.in.base, ret.strict.version)
    /\ ret.once = ret.raw
    /\ ret.twice = ret.raw

\* ------------------------------------------------------------------------
\* Properties of the price cache behind /price (SpecPrice)
\* ------------------------------------------------------------------------
\* the cache key k stands for the identifier n = (base, version)
KeyOf(k, n) ==
    \E id \in {normalize_card_and_version(k, None)} :
        id.ok /\ id.base = n.base /\ id.version = n.version

\* the entries of cache d under the identifier n
EntriesOf(d, n) == {i \in 1..Len(d) : KeyOf(d[i].k, n)}

\* no two entries of the cache stand for the same identifier
OneEntryPerIdentifier ==
    \A ids \in {[i \in 1..Len(data) |-> normalize_card_and_version(data[i].k, None)]} :
        \A i, j \in 1..Len(data) : i # j => ids[i] # ids[j]

\* a /price request for the valid identifier n, as the step that serves it
ServedFromCacheOrFetched(n) ==
    \A before \in {EntriesOf(data, n)} :
    \A after \in {EntriesOf(data', n)} :
    \A live \in {{i \in before : now - data[i].ts <= TTL}} :
    \A resp \in {ret'.resp} :
        /\ ret'.fetched <=> live = {}
        /\ ~ret'.fetched =>
              /\ resp.kind = "ok"
              /\ resp.cached = TRUE
              /\ \A i \in live :
                    /\ resp.prices = data[i].val
                    /\ \E j \in after : data'[j] = data[i]
        /\ (ret'.fetched /\ resp.kind = "ok") =>
              /\ resp.cached = FALSE
              /\ resp.prices = scrape_prices(n.base, n.version, ret'.doc[1]).prices
              /\ \E j \in after :
                    data'[j].val = resp.prices /\ data'[j].ts = now
        /\ \A j \in (1..Len(data')) \ after :
              \E i \in 1..Len(data) : data[i] = data'[j]

\* C14: a /price request for a valid identifier fetches exactly when the cache
\* holds no unexpired entry under the identifier; without a fetch it answers
\* cached = true with the prices of that entry, which only a store for the
\* same identifier ever writes; after a fetch it answers cached = false with
\* the fetched prices, stored under the identifier; and the spellings of one
\* (base, version) share one entry.
C14_CachedIffNotFetched ==
    /\ []OneEntryPerIdentifier
    /\ [][(ret'.op = "price" /\ now' = now) =>
            \A n \in {normalize_card_and_version(ret'.raw, ret'.v)} :
                n.ok => ServedFromCacheOrFetched(n)]_vars

\* a request that spells its version as an explicit v was answered from the
\* cache, from an entry whose age is exactly the TTL, the cache being full
C14_Witness ==
    /\ ret.op = "price"
    /\ ret.v # None
    /\ ~ret.fetched
    /\ ret.resp.kind = "ok"
    /\ ret.resp.cached
    /\ Len(data) = MaxEntries
    /\ data[Len(data)].ts = now - TTL
    /\ ret.resp.prices = data[Len(data)].val

====
